---- MODULE Spec2Model ----
(***************************************************************************)
(* Model of the two daemons of this repository:                            *)
(*   fakewake.py      - one target machine, power/reset lines, PSU sense,  *)
(*                      WOL listener thread, hand-rolled web server thread *)
(*   corelliumwake.py - JetsonResetController, five reset lines, HTTP      *)
(*                      server thread and UDP magic-packet thread          *)
(* Time is a discrete clock (now); strings that the code splits, parses or *)
(* formats are sequences of one-character strings; datagram payloads are   *)
(* sequences of byte values 0..255.                                        *)
(***************************************************************************)
EXTENDS Integers, Sequences, FiniteSets, TLC

\* ------------------------------------------------------------------ bounds
\* last value of the discrete clock
MaxTime == 3
\* largest configured min_interval (clock ticks)
MaxInterval == 2

\* ------------------------------------------------- program constants
\* length of the WOL header, b'\xff' * 6
HeaderLen == 6
\* repetitions of the packed MAC in a magic packet
MacReps == 16
\* struct format '!BBBBBB': six unsigned bytes
MacLen == 6
\* the value of the byte 0xff
ByteFF == 255

\* a button that is not configured (target_button = None)
None == "None"
\* make_packet's None (no usable MAC configured)
NoPacket == <<>>
\* int(x, 16) raised ValueError or struct.pack raised struct.error
PacketError == <<-1>>

\* ------------------------------------------------------- string helpers
\* str.split(sep) on a sequence of characters: the list of fields
RECURSIVE SplitAcc(_, _, _)
SplitAcc(s, sep, cur) ==
    IF s = <<>> THEN <<cur>>
    ELSE IF Head(s) = sep THEN <<cur>> \o SplitAcc(Tail(s), sep, <<>>)
    ELSE SplitAcc(Tail(s), sep, Append(cur, Head(s)))

Split(s, sep) == SplitAcc(s, sep, <<>>)

\* sep.join(parts)
RECURSIVE Join(_, _)
Join(parts, sep) ==
    IF parts = <<>> THEN <<>>
    ELSE IF Len(parts) = 1 THEN Head(parts)
    ELSE Head(parts) \o <<sep>> \o Join(Tail(parts), sep)

HexChars == <<"0","1","2","3","4","5","6","7","8","9","a","b","c","d","e","f">>
HexUpper == <<"0","1","2","3","4","5","6","7","8","9","A","B","C","D","E","F">>

\* value of one hexadecimal digit, -1 when the character is no digit
HexVal(c) ==
    IF \E i \in 1..16 : HexChars[i] = c
    THEN (CHOOSE i \in 1..16 : HexChars[i] = c) - 1
    ELSE IF \E i \in 1..16 : HexUpper[i] = c
    THEN (CHOOSE i \in 1..16 : HexUpper[i] = c) - 1
    ELSE -1

\* int(s, 16): -1 stands for ValueError (empty field, non-hex character)
RECURSIVE HexIntAcc(_, _)
HexIntAcc(s, acc) ==
    IF s = <<>> THEN acc
    ELSE IF HexVal(Head(s)) < 0 THEN -1
    ELSE HexIntAcc(Tail(s), acc * 16 + HexVal(Head(s)))

HexInt(s) == IF s = <<>> THEN -1 ELSE HexIntAcc(s, 0)

\* str.lower() on a sequence of characters
Lower(s) ==
    [i \in 1..Len(s) |->
        IF \E j \in 11..16 : HexUpper[j] = s[i]
        THEN HexChars[CHOOSE j \in 11..16 : HexUpper[j] = s[i]]
        ELSE s[i]]

\* f'{b:02x}': a byte as two lower-case hexadecimal digits
Hex02(b) == <<HexChars[(b \div 16) + 1], HexChars[(b % 16) + 1]>>

\* n copies of a sequence, seq * n
RECURSIVE Repeat(_, _)
Repeat(s, n) == IF n <= 0 THEN <<>> ELSE s \o Repeat(s, n - 1)

\* bytes `in` bytes: needle occurs as a contiguous slice of hay
Contains(hay, needle) ==
    \E off \in 0..(Len(hay) - Len(needle)) :
        \A i \in 1..Len(needle) : hay[off + i] = needle[i]


\* ============================================================ fakewake.py

\* ------------------------------------------------- configuration inputs
\* MAC address strings as they may stand in config.ini
MacA == Join(<< <<"A","A">>, <<"B","B">>, <<"C","C">>, <<"D","D">>, <<"E","E">>, <<"0","1">> >>, ":")
MacB == Join(<< <<"a","a">>, <<"b","b">>, <<"c","c">>, <<"d","d">>, <<"e","e">>, <<"0","2">> >>, ":")
NoMac == <<>>

\* source addresses of datagrams and connections
Addrs == {"10.0.0.1", "10.0.0.2"}

\* raw host lists of config.ini, as the fields between commas
\* (an empty option is the single empty field)
HostChoices ==
    { [allow |-> <<"">>, deny |-> <<"*">>],
      [allow |-> <<"">>, deny |-> <<"10.0.0.2">>],
      [allow |-> <<"10.0.0.1">>, deny |-> <<"*">>],
      [allow |-> <<"10.0.0.1">>, deny |-> <<"10.0.0.1">>],
      [allow |-> <<"10.0.0.1">>, deny |-> <<"10.0.0.2", "*">>] }

\* config.ini after config.read_dict(default_config); config.read(...):
\* a typical deployment (both lines and the PSU sense wired, a wake MAC set,
\* no access control) ...
BaseConfig ==
    [ power |-> 23, reset |-> 24, psu_sense |-> 25,
      short |-> 1, long |-> 2, min_interval |-> 1,
      wake_mac |-> MacA, shutdown_mac |-> NoMac,
      reset_mac |-> NoMac, forceoff_mac |-> NoMac,
      hosts_allow |-> <<"">>, hosts_deny |-> <<"">>,
      local_pwr_ctrl |-> FALSE ]

\* ... and the configurations that differ from it in one respect
FakeConfigs ==
    { BaseConfig }
    \cup { [BaseConfig EXCEPT !.power = 0], [BaseConfig EXCEPT !.reset = 0],
           [BaseConfig EXCEPT !.psu_sense = 0] }
    \cup { [BaseConfig EXCEPT !.min_interval = m] : m \in 1..MaxInterval }
    \cup { [BaseConfig EXCEPT !.wake_mac = NoMac, !.shutdown_mac = MacB] }
    \cup { [BaseConfig EXCEPT !.hosts_allow = h.allow, !.hosts_deny = h.deny] :
             h \in HostChoices }

VARIABLES
    config,            \* the parsed configuration (read-only at runtime)
    now,               \* the clock, time.time()
    psu,               \* the level of the PSU sense input, PSU_SENSE.is_active
    last_action_time,  \* global last_action_time
    line,              \* output lines: button -> driven active
    th,                \* per thread: position in the code and locals
    request,           \* web server: request lines still to be parsed
    replies,           \* web server: replies sent on the connection in hand
    grants             \* history: (thread, clock reading) of granted presses

fvars == << config, now, psu, last_action_time, line, th, request, replies,
            grants >>

\* state of corelliumwake.py's JetsonResetController (defined further down)
VARIABLES
    jconfig,           \* self.config: the jetson sections and general options
    jnow,              \* the clock
    jline,             \* reset lines: jetson id -> transistor driven on
    jt,                \* per thread: position in the code and locals
    jrecent            \* history: (thread, id) of pulses ended at this clock instant

jvars == << jconfig, jnow, jline, jt, jrecent >>

\* state of fakewake.py's main thread and of the threads it supervises
\* (defined further down)
VARIABLES
    sconfig,           \* RESTART_THREADS, PINGER_ENABLED, WEBSERVER_ENABLED, PSU sense
    WOL_ENABLED,       \* global WOL_ENABLED, cleared by wol_listener
    stop_threads,      \* global stop_threads
    main,              \* the main thread: position and what it has done
    task               \* ping_thread, webserver_thread, wol_thread

svars == << sconfig, WOL_ENABLED, stop_threads, main, task >>

vars == << fvars, jvars, svars >>

Threads == {"web", "wol"}
Buttons == {"POWER_SWITCH", "RESET_SWITCH"}

\* ------------------------------------------------- globals set by __main__
POWER_PIN == config.power
RESET_PIN == config.reset
PSU_SENSE_PIN == config.psu_sense
SHORT_PRESS == config.short
LONG_PRESS == config.long
MIN_INTERVAL == config.min_interval
WOL_WAKE_MAC_ADDRESS == config.wake_mac
WOL_SHUTDOWN_MAC_ADDRESS == config.shutdown_mac
WOL_RESET_MAC_ADDRESS == config.forceoff_mac
WOL_FORCEOFF_MAC_ADDRESS == config.reset_mac

\* HOSTS_ALLOW.append(t) for t in RAW_HOSTS_ALLOW.split(','), nothing stripped
HOSTS_ALLOW == { config.hosts_allow[i] : i \in DOMAIN config.hosts_allow }
HOSTS_DENY == { config.hosts_deny[i] : i \in DOMAIN config.hosts_deny }

\* whether sudo -n reboot / poweroff are permitted to the daemon
LOCAL_PWR_CTRL == config.local_pwr_ctrl

POWER_ENABLED == POWER_PIN # 0
RESET_ENABLED == RESET_PIN # 0
PSU_SENSE_ENABLED == PSU_SENSE_PIN # 0

\* ------------------------------------------------------------ valid_host
valid_host_deny_first(ipaddr) ==
    IF "*" \in HOSTS_DENY THEN FALSE
    ELSE IF ipaddr \in HOSTS_ALLOW THEN TRUE
    ELSE IF ipaddr \in HOSTS_DENY THEN FALSE
    ELSE TRUE

valid_host_allow_all(ipaddr) == TRUE

valid_host(ipaddr) ==
    IF ipaddr \in HOSTS_ALLOW THEN TRUE
    ELSE IF "*" \in HOSTS_DENY THEN FALSE
    ELSE IF ipaddr \in HOSTS_DENY THEN FALSE
    ELSE TRUE

\* -------------------------------------------------- pack_mac, make_packet
\* PacketError stands for the ValueError of int(x, 16) or the struct.error of
\* a value that is no unsigned byte
pack_mac(split_mac_address) ==
    LET vals == [i \in 1..MacLen |-> HexInt(split_mac_address[i])]
    IN  IF \E i \in 1..MacLen : vals[i] < 0 \/ vals[i] > ByteFF
        THEN PacketError ELSE vals

wol_header == Repeat(<<ByteFF>>, HeaderLen)

make_packet(mac_address) ==
    LET parts == Split(mac_address, ":")
    IN  IF Len(parts) # MacLen THEN NoPacket
        ELSE IF pack_mac(parts) = PacketError THEN PacketError
        ELSE wol_header \o Repeat(pack_mac(parts), MacReps)

\* magic_packets of wol_listener, in insertion order of its keys
PacketKeys == <<"wake", "shutdown", "reset", "forceoff">>

\* make_packet of every MAC string a configuration may hold, computed once
MacChoices == {NoMac, MacA, MacB}
PacketTable == [m \in MacChoices |-> make_packet(m)]

magic_packets ==
    [k \in {"wake", "shutdown", "reset", "forceoff"} |->
        CASE k = "wake" -> PacketTable[WOL_WAKE_MAC_ADDRESS]
          [] k = "shutdown" -> PacketTable[WOL_SHUTDOWN_MAC_ADDRESS]
          [] k = "reset" -> PacketTable[WOL_RESET_MAC_ADDRESS]
          [] k = "forceoff" -> PacketTable[WOL_FORCEOFF_MAC_ADDRESS]]

\* ----------------------------------------------------------- network inputs
MacABytes == <<170, 187, 204, 221, 238, 1>>
MacBBytes == <<170, 187, 204, 221, 238, 2>>

\* datagrams a peer may send
Payloads ==
    { wol_header \o Repeat(MacABytes, MacReps),
      wol_header \o Repeat(MacBBytes, MacReps),
      <<0>> \o wol_header \o Repeat(MacABytes, MacReps),
      wol_header }

\* magic_packets[k] in inc, for every packet and every datagram, computed once
PacketIn ==
    [pkt \in {PacketTable[m] : m \in MacChoices} \ {NoPacket, PacketError} |->
        [inc \in Payloads |-> Contains(inc, pkt)]]

\* request lines: a line is its space-separated tokens, a token its pieces
\* between '?' characters
Tok(s) == <<s>>
GetLine(url) == << Tok("GET"), url, Tok("HTTP/1.0") >>
Lines ==
    { GetLine(Tok("/")), GetLine(Tok("/power")), GetLine(<<"/power", "">>),
      GetLine(Tok("/forcepower")), GetLine(Tok("/reset")),
      << Tok("POST"), Tok("/reset"), Tok("HTTP/1.0") >>,
      << Tok("PATCH"), Tok("/reset"), Tok("HTTP/1.0") >>,
      << Tok("GET"), Tok("/reset") >>,
      << Tok("Host:"), Tok("target") >> }

\* requests a client may send: one line, or two action lines
Requests ==
    { <<l>> : l \in Lines }
    \cup { <<>>, << GetLine(Tok("/power")), GetLine(Tok("/reset")) >> }

\* ------------------------------------------------------- thread locals
\* pc        position in the thread's code
\* button, duration   press_button's arguments
\* current_time   press_button's clock reading, kept until the datagram or
\*           request line is done with
\* wake_at   clock value at which time.sleep(duration) returns
\* sender    source address of the datagram / connection in hand
\* key       matched packet key (wol) or url of the action route (web)
\* sense     the PSU_SENSE.is_active reading the gate used, if it read one
\* pulses    on() calls made for the datagram / request line in hand
\* granted   the rate-limit test passed for the datagram / request line
Idle(p) ==
    [ pc |-> p, button |-> None, duration |-> 0, current_time |-> 0,
      wake_at |-> 0, sender |-> "none", key |-> "none", sense |-> "none",
      pulses |-> 0, granted |-> FALSE ]

PressStates == {"pb_time", "pb_check", "pb_set", "pb_on", "pb_sleep"}

\* ---------------------------------------------------------------- Init
FakeStart ==
    /\ config \in FakeConfigs
    /\ now = 0
    /\ psu \in BOOLEAN
    /\ last_action_time = now - MIN_INTERVAL
    /\ line = [b \in Buttons |-> FALSE]
    /\ th = [t \in Threads |->
                Idle(IF t = "wol" /\ ~PSU_SENSE_ENABLED THEN "none" ELSE "start")]
    /\ request = <<>>
    /\ replies = {}
    /\ grants = {}

\* ------------------------------------------------------------ press_button
\* the thread me is through with a request line or a datagram: the web
\* server goes on with the next line of the request ("lines"); after the last
\* line, and in the WOL listener, the connection or datagram is done ("done")
Return(t, me, req) ==
    [me EXCEPT !.pc = IF t = "web" /\ req # <<>> THEN "lines" ELSE "done",
               !.button = None, !.duration = 0, !.wake_at = 0]

\* the call press_button(b, d) by thread me: button is None -> return at once;
\* otherwise enter the body
CallPress(t, me, b, d, req) ==
    IF b = None THEN Return(t, me, req)
    ELSE [me EXCEPT !.pc = "pb_time", !.button = b, !.duration = d]

\* current_time = time.time()
PressTime(t) ==
    /\ th[t].pc = "pb_time"
    /\ th' = [th EXCEPT ![t].current_time = now, ![t].pc = "pb_check"]
    /\ UNCHANGED << jvars, svars, config, now, psu, last_action_time, line, request, replies,
                    grants >>

\* History kept of the granted presses: those whose clock reading is still
\* within MIN_INTERVAL of a reading a later call can hold (the clock, or the
\* reading of a call that has not yet made its test).
Recent(g, clock, threads) ==
    LET held == { threads[t].current_time :
                    t \in { u \in Threads : threads[u].pc = "pb_check" } }
        lo == CHOOSE x \in held \cup {clock} : \A y \in held \cup {clock} : x <= y
    IN  { e \in g : e[2] >= lo - MIN_INTERVAL }

\* the rate-limit test of press_button
TooSoon_ge(ct, last) == ~(ct >= last + MIN_INTERVAL)

TooSoon(ct, last) == ~(ct > last + MIN_INTERVAL)

\* if current_time > last_action_time + MIN_INTERVAL: ... else: 'Too soon'
PressCheck_stamp(t) ==
    /\ th[t].pc = "pb_check"
    /\ IF TooSoon(th[t].current_time, last_action_time)
       THEN /\ th' = [th EXCEPT ![t] = Return(t, th[t], request)]
            /\ grants' = grants
            /\ last_action_time' = th[t].current_time
       ELSE /\ th' = [th EXCEPT ![t].pc = "pb_set", ![t].granted = TRUE]
            /\ grants' = grants \cup { <<t, th[t].current_time>> }
            /\ last_action_time' = last_action_time
    /\ UNCHANGED << jvars, svars, config, now, psu, line, request, replies >>

PressCheck(t) ==
    /\ th[t].pc = "pb_check"
    /\ IF TooSoon(th[t].current_time, last_action_time)
       THEN /\ th' = [th EXCEPT ![t] = Return(t, th[t], request)]
            /\ grants' = grants
       ELSE /\ th' = [th EXCEPT ![t].pc = "pb_set", ![t].granted = TRUE]
            /\ grants' = grants \cup { <<t, th[t].current_time>> }
    /\ UNCHANGED << jvars, svars, config, now, psu, last_action_time, line, request, replies >>

\* last_action_time = current_time
PressSet(t) ==
    /\ th[t].pc = "pb_set"
    /\ last_action_time' = th[t].current_time
    /\ th' = [th EXCEPT ![t].pc = "pb_on"]
    /\ UNCHANGED << jvars, svars, config, now, psu, line, request, replies, grants >>

\* button.on(); time.sleep(duration) entered
PressOn(t) ==
    /\ th[t].pc = "pb_on"
    /\ line' = [line EXCEPT ![th[t].button] = TRUE]
    /\ th' = [th EXCEPT ![t].pc = "pb_sleep",
                        ![t].wake_at = now + th[t].duration,
                        ![t].pulses = @ + 1]
    /\ UNCHANGED << jvars, svars, config, now, psu, last_action_time, request, replies,
                    grants >>

\* time.sleep(duration) has returned; button.off()
PressOff_stuck(t) ==
    /\ th[t].pc = "pb_sleep"
    /\ now >= th[t].wake_at
    /\ th' = [th EXCEPT ![t] = Return(t, th[t], request)]
    /\ UNCHANGED << jvars, svars, config, now, psu, last_action_time, line, request,
                    replies, grants >>

PressOff(t) ==
    /\ th[t].pc = "pb_sleep"
    /\ now >= th[t].wake_at
    /\ line' = [line EXCEPT ![th[t].button] = FALSE]
    /\ th' = [th EXCEPT ![t] = Return(t, th[t], request)]
    /\ UNCHANGED << jvars, svars, config, now, psu, last_action_time, request, replies,
                    grants >>

\* button.on() raises (a gpiozero error): press_button has no handler and
\* neither has the loop of the calling listener, so the exception ends the
\* thread; the line was not driven
PressOnFault(t) ==
    /\ th[t].pc = "pb_on"
    /\ th' = [th EXCEPT ![t].pc = "dead"]
    /\ UNCHANGED << jvars, svars, config, now, psu, last_action_time, line, request,
                    replies, grants >>

\* button.off() raises after the sleep: the exception ends the thread and
\* nothing drives the line off
PressOffFault(t) ==
    /\ th[t].pc = "pb_sleep"
    /\ now >= th[t].wake_at
    /\ th' = [th EXCEPT ![t].pc = "dead"]
    /\ UNCHANGED << jvars, svars, config, now, psu, last_action_time, line, request,
                    replies, grants >>

\* ------------------------------------------------------------ wol_listener
\* the packets were created, there is something to listen for and at least one
\* port bound; or the thread returns; or make_packet raised and the thread died
WolStart ==
    /\ th["wol"].pc = "start"
    /\ \E bound \in BOOLEAN :
         th' = [th EXCEPT !["wol"].pc =
                  IF \E k \in DOMAIN magic_packets : magic_packets[k] = PacketError
                  THEN "dead"
                  ELSE IF \A k \in DOMAIN magic_packets : magic_packets[k] = NoPacket
                  THEN "exited"
                  ELSE IF bound THEN "loop" ELSE "exited"]
    /\ UNCHANGED << jvars, svars, config, now, psu, last_action_time, line, request, replies,
                    grants >>

\* for k in magic_packets: <body> break  -- the break ends the loop after the
\* first key whatever the outcome of the comparison
MatchedKey(inc) ==
    LET k == Head(PacketKeys)
        pkt == magic_packets[k]
    IN  IF pkt # NoPacket /\ PacketIn[pkt][inc] THEN k ELSE "none"

\* target_button of a matched key (NameError -> None when the pin is
\* disabled; AUX1 and AUX2 are never created)
TargetButton(k) ==
    IF k \in {"wake", "shutdown", "forceoff"}
    THEN (IF POWER_ENABLED THEN "POWER_SWITCH" ELSE None)
    ELSE IF k = "reset"
    THEN (IF RESET_ENABLED THEN "RESET_SWITCH" ELSE None)
    ELSE None

TargetDuration(k) == IF k = "forceoff" THEN LONG_PRESS ELSE SHORT_PRESS

\* go_nogo of wol_listener for key k when PSU_SENSE.is_active reads active
GoNoGo_ungated(k, active) == TRUE

GoNoGo(k, active) ==
    \/ k = "wake" /\ active = FALSE
    \/ k \in {"shutdown", "forceoff", "reset"} /\ active = TRUE
    \/ k \in {"aux1", "aux2"}

SenseOf(active) == IF active THEN "on" ELSE "off"

\* PSU_SENSE.is_active: reads the level of the input pin at the time of the call
is_active_stored == FALSE

is_active == psu

\* one datagram: recvfrom, valid_host, match, gate, press_button call
WolRecv ==
    /\ th["wol"].pc = "loop"
    /\ \E addr \in Addrs, inc \in Payloads :
        LET k == MatchedKey(inc)
            me == [Idle("done") EXCEPT !.sender = addr]
        IN
        th' = [th EXCEPT !["wol"] =
                 IF ~valid_host(addr) \/ k = "none" THEN me
                 ELSE IF ~PSU_SENSE_ENABLED
                 THEN \* PSU_SENSE was never created: NameError
                      [me EXCEPT !.pc = "dead", !.key = k]
                 ELSE IF GoNoGo(k, is_active)
                 THEN CallPress("wol", [me EXCEPT !.key = k, !.sense = SenseOf(is_active)],
                                TargetButton(k), TargetDuration(k), <<>>)
                 ELSE [me EXCEPT !.key = k, !.sense = SenseOf(is_active)]]
    /\ UNCHANGED << jvars, svars, config, now, psu, last_action_time, line, request, replies,
                    grants >>

\* time.sleep(0.1) at the end of the listener's loop body
WolSleep ==
    /\ th["wol"].pc = "done"
    /\ th' = [th EXCEPT !["wol"] = Idle("loop")]
    /\ UNCHANGED << jvars, svars, config, now, psu, last_action_time, line, request, replies,
                    grants >>

\* --------------------------------------------------------------- webserver
\* first socket: bind and listen, or log the failure and return
WebBind ==
    /\ th["web"].pc = "start"
    /\ \E ok \in BOOLEAN :
         th' = [th EXCEPT !["web"].pc = IF ok THEN "bind2" ELSE "exited"]
    /\ UNCHANGED << jvars, svars, config, now, psu, last_action_time, line, request, replies,
                    grants >>

\* second socket on the same address: bind and listen, or return
WebBindAgain ==
    /\ th["web"].pc = "bind2"
    /\ \E ok \in BOOLEAN :
         th' = [th EXCEPT !["web"].pc = IF ok THEN "loop" ELSE "exited"]
    /\ UNCHANGED << jvars, svars, config, now, psu, last_action_time, line, request, replies,
                    grants >>

\* accept a connection and validate its host.  For a blocked host the code
\* calls client_socket.sendall(error403) with a str: TypeError, nothing is
\* sent and the exception ends the thread.
WebAccept ==
    /\ th["web"].pc = "loop"
    /\ \E addr \in Addrs :
         th' = [th EXCEPT !["web"].sender = addr,
                          !["web"].pc = IF valid_host(addr) THEN "recv" ELSE "dead"]
    /\ replies' = {}
    /\ request' = <<>>
    /\ UNCHANGED << jvars, svars, config, now, psu, last_action_time, line, grants >>

\* request = client_socket.recv(1024).decode(); request.splitlines()
WebRecv ==
    /\ th["web"].pc = "recv"
    /\ \E req \in Requests :
        /\ request' = req
        /\ th' = [th EXCEPT !["web"].pc = IF req = <<>> THEN "done" ELSE "lines"]
    /\ UNCHANGED << jvars, svars, config, now, psu, last_action_time, line, replies, grants >>

Methods405 == { Tok("POST"), Tok("HEAD"), Tok("PUT"), Tok("DELETE"),
                Tok("OPTIONS"), Tok("CONNECT") }
KnownUrls == { "/", "/power", "/forcepower", "/reset", "/config", "/log",
               "/rebootme", "/poweroffme" }

\* the capability flag an action url is guarded by
RouteEnabled_always(url) == TRUE

RouteEnabled(url) ==
    \/ url \in {"/power", "/forcepower"} /\ POWER_ENABLED
    \/ url = "/reset" /\ RESET_ENABLED

\* the urls whose guard reads PSU_SENSE.is_active
NeedsSense(url) == url \in {"/forcepower", "/reset"}

RouteButton(url) == IF url = "/reset" THEN "RESET_SWITCH" ELSE "POWER_SWITCH"

RouteDuration_short(url) == SHORT_PRESS

RouteDuration(url) == IF url = "/forcepower" THEN LONG_PRESS ELSE SHORT_PRESS

\* the PSU part of the guard of an action url, PSU_SENSE.is_active reading active
WebGo_ungated(url, active) == TRUE

WebGo(url, active) == ~NeedsSense(url) \/ active

\* one line of the request: the thread's next state and the reply it sends
WebLineStep(ln, rest) ==
    LET prefix == IF ln = <<>> THEN Tok("") ELSE ln[1]
        url == ln[2][1]
        me == [th["web"] EXCEPT !.key = "none", !.sense = "none", !.pulses = 0,
                                !.granted = FALSE, !.current_time = 0]
        next == Return("web", me, rest)
        dead == [me EXCEPT !.pc = "dead"]
    IN  IF prefix \in Methods405 THEN [to |-> next, say |-> {"405"}]
        ELSE IF prefix # Tok("GET") THEN [to |-> next, say |-> {}]
        ELSE IF Len(ln) # 3
        THEN \* method, url, trailer = line.split(): ValueError
             [to |-> dead, say |-> {}]
        ELSE IF url \notin KnownUrls THEN [to |-> next, say |-> {"404"}]
        ELSE IF url \in {"/log", "/config", "/"} THEN [to |-> next, say |-> {"200"}]
        ELSE IF url = "/rebootme"
        THEN \* without local power control: 404, then output.returncode
             \* reads a local that was never assigned (UnboundLocalError)
             IF LOCAL_PWR_CTRL
             THEN [to |-> [next EXCEPT !.key = url], say |-> {"working"}]
             ELSE [to |-> [dead EXCEPT !.key = url], say |-> {"404"}]
        ELSE IF url = "/poweroffme"
        THEN [to |-> [next EXCEPT !.key = url], say |-> {}]
        ELSE IF ~RouteEnabled(url)
        THEN [to |-> [next EXCEPT !.key = url], say |-> {}]
        ELSE IF NeedsSense(url) /\ ~PSU_SENSE_ENABLED
        THEN \* PSU_SENSE was never created: NameError
             [to |-> [dead EXCEPT !.key = url], say |-> {}]
        ELSE IF WebGo(url, is_active)
        THEN [to |-> CallPress("web",
                               [me EXCEPT !.key = url,
                                          !.sense = IF NeedsSense(url)
                                                    THEN SenseOf(is_active) ELSE "none"],
                               RouteButton(url), RouteDuration(url), rest),
              say |-> {"working"}]
        ELSE [to |-> [next EXCEPT !.key = url, !.sense = SenseOf(is_active)], say |-> {}]

WebLine ==
    /\ th["web"].pc = "lines"
    /\ request # <<>>
    /\ LET step == WebLineStep(Head(request), Tail(request))
       IN  /\ th' = [th EXCEPT !["web"] = step.to]
           /\ replies' = replies \cup step.say
    /\ request' = Tail(request)
    /\ UNCHANGED << jvars, svars, config, now, psu, last_action_time, line, grants >>

\* client_socket.close(); time.sleep(0.1) at the end of the loop body
WebClose ==
    /\ th["web"].pc = "done"
    /\ th' = [th EXCEPT !["web"] = Idle("loop")]
    /\ replies' = {}
    /\ UNCHANGED << jvars, svars, config, now, psu, last_action_time, line, request, grants >>

\* ------------------------------------------------------------ environment
\* time passes
Tick ==
    /\ now < MaxTime
    /\ now' = now + 1
    /\ grants' = Recent(grants, now', th)
    /\ UNCHANGED << jvars, svars, config, psu, last_action_time, line, th, request, replies >>

\* the target machine's power supply switches on or off
PsuChange ==
    /\ PSU_SENSE_ENABLED
    /\ psu' = ~psu
    /\ UNCHANGED << jvars, svars, config, now, last_action_time, line, th, request, replies,
                    grants >>

FakeNext ==
    \/ \E t \in Threads : PressTime(t)
    \/ \E t \in Threads : PressCheck(t)
    \/ \E t \in Threads : PressSet(t)
    \/ \E t \in Threads : PressOn(t)
    \/ \E t \in Threads : PressOff(t)
    \/ WolStart
    \/ WolRecv
    \/ WolSleep
    \/ WebBind
    \/ WebBindAgain
    \/ WebAccept
    \/ WebRecv
    \/ WebLine
    \/ WebClose
    \/ Tick
    \/ PsuChange

\* ------------------------------------------- the WOL listener on its own
\* configurations with the web server disabled ([web] enabled = no): every
\* press_button call is made by the WOL listener, one after another
WolConfigs ==
    { [BaseConfig EXCEPT !.min_interval = m] : m \in 1..MaxInterval }
    \cup { [BaseConfig EXCEPT !.reset_mac = MacB],
           [BaseConfig EXCEPT !.forceoff_mac = MacB] }

WolOnlyStart ==
    /\ config \in WolConfigs
    /\ now = 0
    /\ psu \in BOOLEAN
    /\ last_action_time = now - MIN_INTERVAL
    /\ line = [b \in Buttons |-> FALSE]
    /\ th = [t \in Threads |-> Idle(IF t = "wol" THEN "start" ELSE "none")]
    /\ request = <<>>
    /\ replies = {}
    /\ grants = {}

\* the WOL listener, the clock and the power supply, with a GPIO layer that
\* may raise in on() and off()
WolNext ==
    \/ PressTime("wol")
    \/ PressCheck("wol")
    \/ PressSet("wol")
    \/ PressOn("wol")
    \/ PressOff("wol")
    \/ PressOnFault("wol")
    \/ PressOffFault("wol")
    \/ WolStart
    \/ WolRecv
    \/ WolSleep
    \/ Tick
    \/ PsuChange

\* ======================================================= corelliumwake.py

\* for i in range(1, 6)
NumJetsons == 5
JetsonIds == 1..NumJetsons
\* len(data) < 102: a standard WOL packet is 102 bytes
MinPacketLen == 102

JThreads == {"http", "udp"}

\* ------------------------------------------------- configuration inputs
\* magic_packet_mac of the default configuration, '00:00:00:00:00:0<i>'
DefaultMac(i) ==
    Join(<< <<"0","0">>, <<"0","0">>, <<"0","0">>, <<"0","0">>, <<"0","0">>,
            <<"0", HexChars[i + 1]>> >>, ":")

\* the default configuration file written by create_default_config; gpio_ok
\* tells whether OutputDevice(gpio_pin) could be created, gpio_faulty which
\* devices' on() and off() calls may raise
DefaultJetsonConfig ==
    [ enabled |-> [i \in JetsonIds |-> TRUE],
      mac |-> [i \in JetsonIds |-> DefaultMac(i)],
      gpio_ok |-> [i \in JetsonIds |-> TRUE],
      gpio_faulty |-> {},
      reset_pulse_duration |-> 1 ]

\* ... and configurations that differ from it in one respect
JetsonConfigs ==
    { DefaultJetsonConfig,
      [DefaultJetsonConfig EXCEPT !.enabled[2] = FALSE],
      [DefaultJetsonConfig EXCEPT !.gpio_ok[1] = FALSE],
      [DefaultJetsonConfig EXCEPT !.gpio_faulty = {1}],
      [DefaultJetsonConfig EXCEPT !.mac[1] = MacA],
      [DefaultJetsonConfig EXCEPT !.mac[3] = DefaultMac(1)] }

\* a datagram of 102 bytes whose first 12 are the header and jetson1's default
\* MAC and whose other 90 are not repetitions of it
JunkTailPayload == wol_header \o <<0, 0, 0, 0, 0, 1>> \o Repeat(<<7>>, 90)

\* the magic packet of jetson1's default MAC followed by two more bytes
LongPayload == wol_header \o Repeat(<<0, 0, 0, 0, 0, 1>>, MacReps) \o <<9, 9>>

\* datagrams a peer may send
JetsonPayloads ==
    { JunkTailPayload, LongPayload,
      wol_header \o Repeat(<<0, 0, 0, 0, 0, 1>>, MacReps),
      wol_header \o Repeat(<<0, 0, 0, 0, 0, 2>>, MacReps),
      wol_header \o Repeat(MacABytes, MacReps),
      wol_header \o Repeat(<<0, 0, 0, 0, 0, 1>>, MacReps - 1),
      <<0>> \o wol_header \o Repeat(<<0, 0, 0, 0, 0, 1>>, MacReps) }

\* the jetson parameter of GET /reset?jetson=..., as its characters
JetsonParams == { <<"a","l","l">>, <<"1">>, <<"2">>, <<"0","1">>, <<"9">>, <<"x">> }

\* ------------------------------------------------------- init_gpio
\* self.reset_devices: the enabled sections whose OutputDevice was created
reset_devices(cfg) ==
    { i \in JetsonIds : cfg.enabled[i] /\ cfg.gpio_ok[i] }

\* the ids of a set in increasing order (the dict's insertion order)
RECURSIVE InOrder(_)
InOrder(ids) ==
    IF ids = {} THEN <<>>
    ELSE LET m == CHOOSE x \in ids : \A y \in ids : x <= y
         IN  <<m>> \o InOrder(ids \ {m})

\* ------------------------------------------------- handle_magic_packet
\* data[a:b] of a byte sequence (0-based, end exclusive)
Slice(data, a, b) ==
    [i \in 1..((IF b < Len(data) THEN b ELSE Len(data)) - a) |-> data[a + i]]

\* ':'.join(f'{b:02x}' for b in mac_bytes)
MacText(mac_bytes) ==
    Join([i \in 1..Len(mac_bytes) |-> Hex02(mac_bytes[i])], ":")

\* the id handle_magic_packet passes to reset_jetson, 0 when it returns
\* without calling it
handle_magic_packet_strict(cfg, data) ==
    IF Len(data) # MinPacketLen THEN 0
    ELSE IF Slice(data, 0, HeaderLen) # wol_header THEN 0
    ELSE IF data # wol_header \o Repeat(Slice(data, HeaderLen, HeaderLen + MacLen),
                                        MacReps)
    THEN 0
    ELSE LET mac_address == MacText(Slice(data, HeaderLen, HeaderLen + MacLen))
             hits == { i \in JetsonIds : Lower(cfg.mac[i]) = Lower(mac_address) }
         IN  IF hits = {} THEN 0
             ELSE CHOOSE i \in hits : \A j \in hits : i <= j

handle_magic_packet(cfg, data) ==
    IF Len(data) < MinPacketLen THEN 0
    ELSE IF Slice(data, 0, HeaderLen) # wol_header THEN 0
    ELSE LET mac_address == MacText(Slice(data, HeaderLen, HeaderLen + MacLen))
             hits == { i \in JetsonIds : Lower(cfg.mac[i]) = Lower(mac_address) }
         IN  IF hits = {} THEN 0
             ELSE CHOOSE i \in hits : \A j \in hits : i <= j

\* handle_magic_packet for every configuration and datagram, computed once
PacketTarget ==
    [cfg \in JetsonConfigs |->
        [data \in JetsonPayloads |-> handle_magic_packet(cfg, data)]]

\* ------------------------------------------------------------- do_GET
\* str.isdigit() and int() on the jetson parameter
IsDigits(p) == p # <<>> /\ \A i \in 1..Len(p) : HexVal(p[i]) \in 0..9

RECURSIVE DecInt(_, _)
DecInt(p, acc) ==
    IF p = <<>> THEN acc ELSE DecInt(Tail(p), acc * 10 + HexVal(Head(p)))

\* the ids do_GET asks reset for, in order; <<>> for a 400 reply
ResetTargets(cfg, param) ==
    IF param = <<"a","l","l">> THEN InOrder(reset_devices(cfg))
    ELSE IF IsDigits(param) THEN << DecInt(param, 0) >>
    ELSE <<>>

\* ------------------------------------------------------ thread locals
\* pc       position: "start", "idle" (waiting for a request), "call"
\*          (reset_jetson about to run for Head(todo)), "sleep" (line driven
\*          on, in time.sleep), "exited", "none"
\* todo     ids reset_jetson is still to be called for by the request in hand
\* wake_at  clock value at which time.sleep returns
\* began    clock value at which the line was driven on
\* queued   ids asked for by requests that arrived while the listener was
\*          inside reset_jetson and wait in its socket
JIdle(p) ==
    [ pc |-> p, todo |-> <<>>, wake_at |-> 0, began |-> 0, queued |-> <<>> ]

\* reset_jetson has returned to listener me: the next id of the request in
\* hand, else the next request waiting in the socket, else wait for one
JReturn(me) ==
    IF Tail(me.todo) # <<>>
    THEN [JIdle("call") EXCEPT !.todo = Tail(me.todo), !.queued = me.queued]
    ELSE IF me.queued # <<>>
    THEN [JIdle("call") EXCEPT !.todo = << Head(me.queued) >>,
                               !.queued = Tail(me.queued)]
    ELSE JIdle("idle")

JetsonStart ==
    /\ jconfig \in JetsonConfigs
    /\ jnow = 0
    /\ jline = [i \in JetsonIds |-> FALSE]
    /\ jt = [t \in JThreads |-> JIdle("start")]
    /\ jrecent = {}

\* ------------------------------------------------------ reset_jetson
\* reset_jetson(Head(todo)): unknown id -> return False; else drive the line
\* on and sleep
ResetOn_any(t) ==
    /\ jt[t].pc = "call"
    /\ LET id == Head(jt[t].todo)
       IN  /\ jline' = [jline EXCEPT ![id] = TRUE]
           /\ jt' = [jt EXCEPT ![t].pc = "sleep",
                               ![t].began = jnow,
                               ![t].wake_at = jnow + jconfig.reset_pulse_duration]
    /\ UNCHANGED << fvars, svars, jconfig, jnow, jrecent >>

ResetOn(t) ==
    /\ jt[t].pc = "call"
    /\ LET id == Head(jt[t].todo)
       IN  IF id \notin reset_devices(jconfig)
           THEN /\ jt' = [jt EXCEPT ![t] = JReturn(jt[t])]
                /\ jline' = jline
           ELSE /\ jline' = [jline EXCEPT ![id] = TRUE]
                /\ jt' = [jt EXCEPT ![t].pc = "sleep",
                                    ![t].began = jnow,
                                    ![t].wake_at = jnow + jconfig.reset_pulse_duration]
    /\ UNCHANGED << fvars, svars, jconfig, jnow, jrecent >>

\* time.sleep has returned: drive the line off, return True
ResetOff(t) ==
    /\ jt[t].pc = "sleep"
    /\ jnow >= jt[t].wake_at
    /\ LET id == Head(jt[t].todo)
       IN  /\ jline' = [jline EXCEPT ![id] = FALSE]
           /\ jrecent' = jrecent \cup { <<t, id>> }
           /\ jt' = [jt EXCEPT ![t] = JReturn(jt[t])]
    /\ UNCHANGED << fvars, svars, jconfig, jnow >>

\* jetson['device'].on() raises: the except clause logs and returns False;
\* the line was not driven
ResetOnFault(t) ==
    /\ jt[t].pc = "call"
    /\ Head(jt[t].todo) \in reset_devices(jconfig) \cap jconfig.gpio_faulty
    /\ jt' = [jt EXCEPT ![t] = JReturn(jt[t])]
    /\ UNCHANGED << fvars, svars, jconfig, jnow, jline, jrecent >>

\* jetson['device'].off() raises after the sleep: the except clause logs and
\* returns False; nothing drives the line off
ResetOffFault(t) ==
    /\ jt[t].pc = "sleep"
    /\ jnow >= jt[t].wake_at
    /\ Head(jt[t].todo) \in jconfig.gpio_faulty
    /\ jrecent' = jrecent \cup { <<t, Head(jt[t].todo)>> }
    /\ jt' = [jt EXCEPT ![t] = JReturn(jt[t])]
    /\ UNCHANGED << fvars, svars, jconfig, jnow, jline >>

\* ------------------------------------------------------ the two threads
\* number of requests that may wait in a listener's socket while the listener
\* is inside reset_jetson
MaxQueued == 1

\* the ids a request arriving at listener t can ask a reset for
Arrivals(t) ==
    IF t = "udp"
    THEN { PacketTarget[jconfig][data] : data \in JetsonPayloads } \ {0}
    ELSE { ids[1] : ids \in { ResetTargets(jconfig, param) :
                               param \in JetsonParams \ {<<"a","l","l">>} }
                             \ {<<>>} }

\* a request arrives while the listener's pulse is in progress: serve_forever
\* of HTTPServer and the recvfrom loop handle one request at a time, so
\* reset_jetson is called for it after the calls in hand have returned
Arrive(t) ==
    /\ jt[t].pc = "sleep"
    /\ Len(jt[t].queued) < MaxQueued
    /\ \E id \in Arrivals(t) :
         jt' = [jt EXCEPT ![t].queued = Append(@, id)]
    /\ UNCHANGED << fvars, svars, jconfig, jnow, jline, jrecent >>

\* start_web_server: HTTPServer(...) binds or raises; serve_forever
HttpStart ==
    /\ jt["http"].pc = "start"
    /\ \E ok \in BOOLEAN :
         jt' = [jt EXCEPT !["http"].pc = IF ok THEN "idle" ELSE "none"]
    /\ UNCHANGED << fvars, svars, jconfig, jnow, jline, jrecent >>

\* do_GET for /reset?jetson=<param>
HttpReset ==
    /\ jt["http"].pc = "idle"
    /\ \E param \in JetsonParams :
         LET ids == ResetTargets(jconfig, param)
         IN  jt' = [jt EXCEPT !["http"] =
                      IF ids = <<>> THEN JIdle("idle")
                      ELSE [JIdle("call") EXCEPT !.todo = ids]]
    /\ UNCHANGED << fvars, svars, jconfig, jnow, jline, jrecent >>

\* udp_listener: sock.bind succeeds, or raises and the thread ends
UdpStart ==
    /\ jt["udp"].pc = "start"
    /\ \E ok \in BOOLEAN :
         jt' = [jt EXCEPT !["udp"].pc = IF ok THEN "idle" ELSE "exited"]
    /\ UNCHANGED << fvars, svars, jconfig, jnow, jline, jrecent >>

\* data, addr = sock.recvfrom(1024); self.handle_magic_packet(data, addr)
UdpRecv ==
    /\ jt["udp"].pc = "idle"
    /\ \E data \in JetsonPayloads :
         LET id == PacketTarget[jconfig][data]
         IN  jt' = [jt EXCEPT !["udp"] =
                      IF id = 0 THEN JIdle("idle")
                      ELSE [JIdle("call") EXCEPT !.todo = <<id>>]]
    /\ UNCHANGED << fvars, svars, jconfig, jnow, jline, jrecent >>

\* time passes
JTick ==
    /\ jnow < MaxTime
    /\ jnow' = jnow + 1
    /\ jrecent' = {}
    /\ UNCHANGED << fvars, svars, jconfig, jline, jt >>

JetsonNext ==
    \/ \E t \in JThreads : ResetOn(t)
    \/ \E t \in JThreads : ResetOff(t)
    \/ \E t \in JThreads : ResetOnFault(t)
    \/ \E t \in JThreads : ResetOffFault(t)
    \/ \E t \in JThreads : Arrive(t)
    \/ HttpStart
    \/ HttpReset
    \/ UdpStart
    \/ UdpRecv
    \/ JTick

\* ===================================================== fakewake.py __main__
\* the threads the main loop supervises
Tasks == {"ping", "web", "wol"}

\* number of Thread objects one variable of the main thread may come to hold
MaxObj == 3

\* a thread variable of the main thread: obj numbers the Thread object it
\* holds (0 for None), st is where that thread is: "bind" (started, before
\* its first bind), "setup" (web server: first socket listening, building its
\* pages), "enter" (web server: second socket listening, about to test the
\* loop condition), "run" (in its loop), "recv" (web server, inside
\* client_socket.recv), "dead" (ended by an exception), "exited" (returned),
\* "none".  The WOL listener's record gets a field listeners, the ports it
\* has bound, when it is through with binding.
NoThread == [obj |-> 0, st |-> "none"]

\* Thread.is_alive()
is_alive(t) == t.st \in {"bind", "setup", "enter", "run", "recv"}

\* the names the threads read are bound by __main__ as it goes: main.pc is
\* "boot" (before the first start_webserver call), "parse" (the rest of the
\* configuration: TARGET_IDS, HOSTS_ALLOW, pins, flags), "gpio" (the gpiozero
\* objects), "init" (last_action_time, stop_threads), "threads" (the start_
\* calls), then the positions of the main loop
TargetIdsBound == main.pc \notin {"boot", "parse"}
StopThreadsBound == main.pc \notin {"boot", "parse", "gpio", "init"}

\* the web server threads there are: the one webserver_thread holds and, once
\* that variable has been assigned a second time, the one it held before
WebTasks == DOMAIN task \cap {"web", "early"}

\* a web server thread holding a listening socket on (host, port)
Listening(n) == task[n].st \in {"setup", "enter", "run", "recv"}

\* WOL_PORTS of the configurations considered
WolPorts == {7, 9}

\* truth value of a thread variable: None is false, a Thread object is true
Truthy(t) == t.obj # 0

RESTART_THREADS == sconfig.restart
PINGER_ENABLED == sconfig.pinger
WEBSERVER_ENABLED == sconfig.web

\* start_pinger(), start_webserver(), start_wol(): a new Thread object,
\* started, or None; old is the previous value of the variable assigned to
start_pinger_same(old) ==
    IF PINGER_ENABLED
    THEN [obj |-> IF old.obj = 0 THEN 1 ELSE old.obj, st |-> "run"]
    ELSE NoThread

start_pinger(old) ==
    IF PINGER_ENABLED THEN [obj |-> old.obj + 1, st |-> "run"] ELSE NoThread

start_webserver(old) ==
    IF WEBSERVER_ENABLED THEN [obj |-> old.obj + 1, st |-> "bind"] ELSE NoThread

start_wol(old) ==
    IF WOL_ENABLED THEN [obj |-> old.obj + 1, st |-> "bind"] ELSE NoThread

\* the state when the main loop is entered: stop_threads = False, the three
\* start_ calls made; WOL_ENABLED is false without a PSU sense pin
MainStart ==
    /\ sconfig \in [restart : BOOLEAN, pinger : BOOLEAN, web : BOOLEAN, psu : BOOLEAN]
    /\ WOL_ENABLED = sconfig.psu
    /\ stop_threads = FALSE
    /\ main = [pc |-> "chk_ping", signal |-> FALSE, freed |-> FALSE]
    /\ task = [n \in Tasks |->
                 CASE n = "ping" -> start_pinger(NoThread)
                   [] n = "web" -> start_webserver(NoThread)
                   [] n = "wol" -> start_wol(NoThread)]

\* ------------------------------------------------------------- main loop
\* if ping_thread is not None and ping_thread.is_alive() == False: ...
PingFound(t) ==
    IF Truthy(t) /\ ~is_alive(t) /\ RESTART_THREADS THEN start_pinger(t) ELSE t

\* if webserver_thread is not None and webserver_thread.is_alive() == False:
\*     if RESTART_THREADS: webserver_thread = start_webserver()
\*     if webserver_thread: ... else: break
WebFound(t) ==
    IF Truthy(t) /\ ~is_alive(t)
    THEN LET t1 == IF RESTART_THREADS THEN start_webserver(t) ELSE t
         IN  [task |-> t1, pc |-> IF Truthy(t1) THEN "chk_wol" ELSE "cleanup"]
    ELSE [task |-> t, pc |-> "chk_wol"]

\* if wol_thread is not None and wol_thread.is_alive() == False:
\*     wol_thread = None
WolFound_fatal(t) ==
    IF Truthy(t) /\ ~is_alive(t)
    THEN [task |-> NoThread, pc |-> "cleanup"]
    ELSE [task |-> t, pc |-> "sleep"]

WolFound(t) ==
    IF Truthy(t) /\ ~is_alive(t)
    THEN [task |-> NoThread, pc |-> "sleep"]
    ELSE [task |-> t, pc |-> "sleep"]

ChkPing ==
    /\ main.pc = "chk_ping"
    /\ task' = [task EXCEPT !["ping"] = PingFound(@)]
    /\ main' = [main EXCEPT !.pc = "chk_web"]
    /\ UNCHANGED << fvars, jvars, sconfig, WOL_ENABLED, stop_threads >>

ChkWeb ==
    /\ main.pc = "chk_web"
    /\ task["web"].obj <= MaxObj
    /\ task' = [task EXCEPT !["web"] = WebFound(@).task]
    /\ main' = [main EXCEPT !.pc = WebFound(task["web"]).pc]
    /\ UNCHANGED << fvars, jvars, sconfig, WOL_ENABLED, stop_threads >>

ChkWol ==
    /\ main.pc = "chk_wol"
    /\ task' = [task EXCEPT !["wol"] = WolFound(@).task]
    /\ main' = [main EXCEPT !.pc = WolFound(task["wol"]).pc]
    /\ UNCHANGED << fvars, jvars, sconfig, WOL_ENABLED, stop_threads >>

\* time.sleep(loop_delay)
MainSleep ==
    /\ main.pc = "sleep"
    /\ main' = [main EXCEPT !.pc = "chk_ping"]
    /\ UNCHANGED << fvars, jvars, sconfig, WOL_ENABLED, stop_threads, task >>

\* KeyboardInterrupt (or any exception) in the main loop: on to 'finally'
Interrupt ==
    /\ main.pc \in {"chk_ping", "chk_web", "chk_wol", "sleep"}
    /\ main' = [main EXCEPT !.pc = "cleanup", !.signal = TRUE]
    /\ UNCHANGED << fvars, jvars, sconfig, WOL_ENABLED, stop_threads, task >>

\* finally: stop_threads = True; POWER_SWITCH.close(); RESET_SWITCH.close()
Cleanup ==
    /\ main.pc = "cleanup"
    /\ stop_threads' = TRUE
    /\ main' = [main EXCEPT !.pc = "end", !.freed = TRUE]
    /\ UNCHANGED << fvars, jvars, sconfig, WOL_ENABLED, task >>

\* ------------------------------------------------------ supervised threads
\* an exception nobody catches ends the thread (sendall of a str, the
\* unpacking of a request line, a name never bound, PingServer failing): the
\* number of deaths per variable is capped by MaxObj
TaskDie(n) ==
    /\ is_alive(task[n])
    /\ task[n].obj < MaxObj
    /\ task' = [task EXCEPT ![n].st = "dead"]
    /\ UNCHANGED << fvars, jvars, sconfig, WOL_ENABLED, stop_threads, main >>

\* while stop_threads == False: ... -- the loop condition is found false
TaskExit(n) ==
    /\ task[n].st = "run"
    /\ stop_threads
    /\ task' = [task EXCEPT ![n].st = "exited"]
    /\ UNCHANGED << fvars, jvars, sconfig, WOL_ENABLED, stop_threads, main >>

\* wol_listener has nothing to listen for (no packet, or WOL_PORTS empty):
\* WOL_ENABLED = False; return
WolGiveUp ==
    /\ task["wol"].st = "bind"
    /\ WOL_ENABLED' = FALSE
    /\ task' = [task EXCEPT !["wol"].st = "exited"]
    /\ UNCHANGED << fvars, jvars, sconfig, stop_threads, main >>

\* for port in WOL_PORTS: try: ... bind ... listeners.append(listener)
\* except: log -- bound is the set of ports whose bind succeeded;
\* if len(listeners) == 0: WOL_ENABLED = False; return
wol_after_bind_strict(t, bound) ==
    IF bound # WolPorts
    THEN [obj |-> t.obj, st |-> "exited", listeners |-> bound]
    ELSE [obj |-> t.obj, st |-> "run", listeners |-> bound]

wol_after_bind(t, bound) ==
    IF bound = {}
    THEN [obj |-> t.obj, st |-> "exited", listeners |-> bound]
    ELSE [obj |-> t.obj, st |-> "run", listeners |-> bound]

WolBind ==
    /\ task["wol"].st = "bind"
    /\ \E bound \in SUBSET WolPorts :
         /\ task' = [task EXCEPT !["wol"] = wol_after_bind(@, bound)]
         /\ WOL_ENABLED' = IF is_alive(task'["wol"]) THEN WOL_ENABLED ELSE FALSE
    /\ UNCHANGED << fvars, jvars, sconfig, stop_threads, main >>

\* webserver: the first bind and listen.  It fails (the thread logs and
\* returns) when another web server thread is listening on the address; a
\* failure for another reason counts among the deaths MaxObj caps
WebListen(n) ==
    /\ task[n].st = "bind"
    /\ \E ok \in BOOLEAN :
         /\ ok \/ task[n].obj < MaxObj
         /\ task' = [task EXCEPT ![n].st =
                        IF \E m \in WebTasks \ {n} : Listening(m) THEN "exited"
                        ELSE IF ok THEN "setup" ELSE "exited"]
    /\ UNCHANGED << fvars, jvars, sconfig, WOL_ENABLED, stop_threads, main >>

\* webserver: target_id = '<h1>%s</h1>' % TARGET_IDS[0] (NameError while
\* __main__ has not bound TARGET_IDS), then the second socket
WebSetup(n) ==
    /\ task[n].st = "setup"
    /\ task' = [task EXCEPT ![n].st = IF TargetIdsBound THEN "enter" ELSE "dead"]
    /\ UNCHANGED << fvars, jvars, sconfig, WOL_ENABLED, stop_threads, main >>

\* webserver: while stop_threads == False, evaluated for the first time
\* (NameError while __main__ has not bound stop_threads)
WebEnter(n) ==
    /\ task[n].st = "enter"
    /\ task' = [task EXCEPT ![n].st = IF StopThreadsBound THEN "run" ELSE "dead"]
    /\ UNCHANGED << fvars, jvars, sconfig, WOL_ENABLED, stop_threads, main >>

\* a client connects: accept(), valid_host passes, client_socket.recv(1024)
\* is entered; the accepted socket is a blocking one without timeout
WebConnect ==
    /\ task["web"].st = "run"
    /\ ~stop_threads
    /\ task' = [task EXCEPT !["web"].st = "recv"]
    /\ UNCHANGED << fvars, jvars, sconfig, WOL_ENABLED, stop_threads, main >>

\* the client sends its request or closes: recv returns, the request is
\* handled, the connection closed and the loop condition reached again
WebRequest ==
    /\ task["web"].st = "recv"
    /\ task' = [task EXCEPT !["web"].st = "run"]
    /\ UNCHANGED << fvars, jvars, sconfig, WOL_ENABLED, stop_threads, main >>

MainNext ==
    \/ ChkPing
    \/ ChkWeb
    \/ ChkWol
    \/ MainSleep
    \/ Interrupt
    \/ Cleanup
    \/ \E n \in Tasks : TaskDie(n)
    \/ \E n \in DOMAIN task : TaskExit(n)
    \/ WolGiveUp
    \/ WolBind
    \/ \E n \in WebTasks : WebListen(n)
    \/ \E n \in WebTasks : WebSetup(n)
    \/ \E n \in WebTasks : WebEnter(n)
    \/ WebConnect
    \/ WebRequest

\* ------------------------------------------------------- __main__, startup
\* the state before the first start_webserver call: WEBSERVER_ENABLED has
\* been read, nothing else
BootStart ==
    /\ sconfig \in [restart : BOOLEAN, pinger : BOOLEAN, web : BOOLEAN, psu : BOOLEAN]
    /\ WOL_ENABLED = sconfig.psu
    /\ stop_threads = FALSE
    /\ main = [pc |-> "boot", signal |-> FALSE, freed |-> FALSE]
    /\ task = [n \in Tasks \cup {"early"} |-> NoThread]

\* webserver_thread = start_webserver(), right after the web server settings
\* are read
FirstStartWebserver ==
    /\ main.pc = "boot"
    /\ task' = [task EXCEPT !["web"] = start_webserver(@)]
    /\ main' = [main EXCEPT !.pc = "parse"]
    /\ UNCHANGED << fvars, jvars, sconfig, WOL_ENABLED, stop_threads >>

\* the rest of the configuration is read: pins, timings, WOL, pinger,
\* threads, TARGET_IDS, HOSTS_ALLOW, HOSTS_DENY, the flags
ParseConfig ==
    /\ main.pc = "parse"
    /\ main' = [main EXCEPT !.pc = "gpio"]
    /\ UNCHANGED << fvars, jvars, sconfig, WOL_ENABLED, stop_threads, task >>

\* POWER_SWITCH, RESET_SWITCH, PSU_SENSE are created
CreateGpio ==
    /\ main.pc = "gpio"
    /\ main' = [main EXCEPT !.pc = "init"]
    /\ UNCHANGED << fvars, jvars, sconfig, WOL_ENABLED, stop_threads, task >>

\* last_action_time = time.time() - MIN_INTERVAL; stop_threads = False
InitTimer ==
    /\ main.pc = "init"
    /\ stop_threads' = FALSE
    /\ main' = [main EXCEPT !.pc = "threads"]
    /\ UNCHANGED << fvars, jvars, sconfig, WOL_ENABLED, task >>

\* ping_thread = start_pinger(); webserver_thread = start_webserver();
\* wol_thread = start_wol() -- the thread webserver_thread held goes on
\* unreferenced
StartThreads ==
    /\ main.pc = "threads"
    /\ task' = [task EXCEPT !["ping"] = start_pinger(@),
                            !["early"] = task["web"],
                            !["web"] = start_webserver(@),
                            !["wol"] = start_wol(@)]
    /\ main' = [main EXCEPT !.pc = "chk_ping"]
    /\ UNCHANGED << fvars, jvars, sconfig, WOL_ENABLED, stop_threads >>

BootNext ==
    \/ FirstStartWebserver
    \/ ParseConfig
    \/ CreateGpio
    \/ InitTimer
    \/ StartThreads
    \/ MainNext

\* ========================================================= specifications
\* the Jetson controller not running
JetsonOff ==
    /\ jconfig = DefaultJetsonConfig
    /\ jnow = 0
    /\ jline = [i \in JetsonIds |-> FALSE]
    /\ jt = [t \in JThreads |-> JIdle("none")]
    /\ jrecent = {}

\* fakewake not running
FakeOff ==
    /\ config = BaseConfig
    /\ now = 0
    /\ psu = FALSE
    /\ last_action_time = 0
    /\ line = [b \in Buttons |-> FALSE]
    /\ th = [t \in Threads |-> Idle("none")]
    /\ request = <<>>
    /\ replies = {}
    /\ grants = {}

\* the main loop of fakewake.py not running
MainOff ==
    /\ sconfig = [restart |-> FALSE, pinger |-> FALSE, web |-> FALSE, psu |-> FALSE]
    /\ WOL_ENABLED = FALSE
    /\ stop_threads = FALSE
    /\ main = [pc |-> "none", signal |-> FALSE, freed |-> FALSE]
    /\ task = [n \in Tasks |-> NoThread]

\* fakewake: the listeners and press_button
FakeInit == FakeStart /\ JetsonOff /\ MainOff

Spec == FakeInit /\ [][FakeNext]_vars

\* JetsonResetController
JetsonInit == JetsonStart /\ FakeOff /\ MainOff

WolInit == WolOnlyStart /\ JetsonOff /\ MainOff
SpecWol == WolInit /\ [][WolNext]_vars

SpecJetson == JetsonInit /\ [][JetsonNext]_vars

\* fakewake: the main loop and the lifecycle of its threads
MainInit == MainStart /\ FakeOff /\ JetsonOff

SpecMain == MainInit /\ [][MainNext]_vars

\* ... with the scheduler running every thread that can take a step; what
\* the network peers do (WebConnect, WebRequest) and the faults are not owed
SpecMainFair ==
    /\ MainInit /\ [][MainNext]_vars
    /\ WF_vars(ChkPing) /\ WF_vars(ChkWeb) /\ WF_vars(ChkWol)
    /\ WF_vars(MainSleep) /\ WF_vars(Cleanup)
    /\ \A n \in Tasks : WF_vars(TaskExit(n))
    /\ WF_vars(WolBind)
    /\ WF_vars(WebListen("web")) /\ WF_vars(WebSetup("web"))
    /\ WF_vars(WebEnter("web"))

\* either program with its scheduling: the clock advances, and a thread whose
\* time.sleep has run out goes on to the statement after it.  Exactly one of
\* the two programs runs in a behaviour (the Jetson controller's UDP thread is
\* at "none" while fakewake's WOL listener is the one running); a request
\* that arrives while a listener is inside reset_jetson waits in the socket
\* and is left out here
LiveInit == WolInit \/ JetsonInit

LiveNext ==
    \/ jt["udp"].pc = "none" /\ WolNext
    \/ /\ jt["udp"].pc # "none"
       /\ \/ \E t \in JThreads : ResetOn(t)
          \/ \E t \in JThreads : ResetOff(t)
          \/ \E t \in JThreads : ResetOnFault(t)
          \/ \E t \in JThreads : ResetOffFault(t)
          \/ HttpStart
          \/ HttpReset
          \/ UdpStart
          \/ UdpRecv
          \/ JTick

SpecLive ==
    /\ LiveInit /\ [][LiveNext]_vars
    /\ WF_vars(jt["udp"].pc = "none" /\ Tick)
    /\ WF_vars(jt["udp"].pc = "none" /\ PressOff("wol"))
    /\ WF_vars(jt["udp"].pc # "none" /\ JTick)
    /\ \A t \in JThreads : WF_vars(jt["udp"].pc # "none" /\ ResetOff(t))

\* fakewake from the start of __main__
BootInit == BootStart /\ FakeOff /\ JetsonOff

SpecBoot == BootInit /\ [][BootNext]_vars

\* ================================================================= claims

\* the access rule in closed form: allow-listed, or neither '*' nor the
\* address is deny-listed
Permitted(a) ==
    a \in HOSTS_ALLOW \/ ("*" \notin HOSTS_DENY /\ a \notin HOSTS_DENY)

\* a press_button call that has driven its line on and not yet off
InPulse(t) == th[t].pc = "pb_sleep"

Abs(x) == IF x < 0 THEN -x ELSE x

\* C1 (as claimed): two granted press_button calls never overlap on an output
\* line: no two threads are between on() and off() on the same button.
C1_PulsesNeverOverlap ==
    \A t1, t2 \in Threads :
        (t1 # t2 /\ InPulse(t1) /\ InPulse(t2)) => th[t1].button # th[t2].button

\* C2 (as claimed): of two press_button calls whose clock readings differ by
\* less than MIN_INTERVAL at most one is granted.
C2_OneGrantPerInterval ==
    \A g1, g2 \in grants :
        g1 # g2 => Abs(g1[2] - g2[2]) >= MIN_INTERVAL

\* C3 (as claimed): the on/sleep/off sequences of the HTTP thread and of the
\* UDP thread never overlap on one Jetson's reset line.
C3_JetsonPulsesNeverOverlap ==
    \A t1, t2 \in JThreads :
        (t1 # t2 /\ jt[t1].pc = "sleep" /\ jt[t2].pc = "sleep")
            => Head(jt[t1].todo) # Head(jt[t2].todo)

\* C4 (as claimed): of two requests for one Jetson handled in immediate
\* succession by a listener only one is pulsed: no pulse on a Jetson begins at
\* the clock instant at which the same thread's previous pulse on it ended.
C4_JetsonOnePulsePerBurst ==
    \A t \in JThreads :
        (jt[t].pc = "sleep" /\ jt[t].began = jnow)
            => <<t, Head(jt[t].todo)>> \notin jrecent

\* C5: valid_host(addr) is True exactly when addr is allow-listed or
\* HOSTS_DENY holds neither '*' nor addr; so an allow-listed address is
\* permitted whatever HOSTS_DENY holds, HOSTS_DENY = ['*'] with no address
\* allow-listed denies every address, and with nothing listed every address
\* is permitted.
C5_ValidHostRule ==
    /\ \A a \in Addrs : valid_host(a) = Permitted(a)
    /\ \A a \in Addrs : a \in HOSTS_ALLOW => valid_host(a)
    /\ (HOSTS_DENY = {"*"} /\ HOSTS_ALLOW \cap Addrs = {})
          => \A a \in Addrs : ~valid_host(a)
    /\ (HOSTS_ALLOW \cap Addrs = {} /\ HOSTS_DENY \cap (Addrs \cup {"*"}) = {})
          => \A a \in Addrs : valid_host(a)

\* C5 witness: the web server has accepted a connection from an allow-listed
\* address although HOSTS_DENY holds '*', and the WOL listener has dropped a
\* datagram of an address that only '*' denies.
C5_Witness ==
    /\ "*" \in HOSTS_DENY
    /\ th["web"].pc = "recv" /\ th["web"].sender \in HOSTS_ALLOW
    /\ th["wol"].pc = "done" /\ th["wol"].sender \in Addrs \ HOSTS_ALLOW
    /\ th["wol"].key = "none"

\* C6: a datagram or connection whose source address valid_host rejects never
\* reaches packet matching, request reading or press_button, so it never
\* drives a line.
C6_BlockedHostNeverActuates ==
    \A t \in Threads :
        (th[t].pc \in PressStates \cup {"recv", "lines"} \/ th[t].key # "none")
            => Permitted(th[t].sender)

\* C6 witness: both listeners have turned away a blocked address.
C6_Witness ==
    /\ th["wol"].pc = "done" /\ th["wol"].sender \in Addrs
    /\ ~Permitted(th["wol"].sender)
    /\ th["web"].pc = "dead" /\ th["web"].sender \in Addrs
    /\ ~Permitted(th["web"].sender)

\* C7 (as claimed): a connection from a rejected address is answered with the
\* 403 response and the listener goes on with its accept loop.
C7_BlockedHostGets403 ==
    (th["web"].sender \in Addrs /\ ~Permitted(th["web"].sender))
        => ("403" \in replies /\ th["web"].pc # "dead")

C9_WebGate ==
    /\ (th["web"].pc \in PressStates /\ th["web"].key \in {"/reset", "/forcepower"})
          => th["web"].sense = "on"
    /\ (th["web"].pc \in PressStates /\ th["web"].key = "/reset")
          => /\ th["web"].button = "RESET_SWITCH"
             /\ th["web"].duration = SHORT_PRESS
    /\ (th["web"].pc \in PressStates /\ th["web"].key = "/forcepower")
          => th["web"].button = "POWER_SWITCH"
    /\ (th["web"].key \in {"/reset", "/forcepower"} /\ th["web"].sense # "on")
          => th["web"].pulses = 0
    /\ th["web"].pulses <= 1

\* C9 witness: a GET /reset handled with the PSU sense reading On has given
\* its one pulse.
C9_Witness ==
    /\ th["web"].pc = "done" /\ th["web"].key = "/reset"
    /\ th["web"].sense = "on" /\ th["web"].pulses = 1

\* C10 (as claimed): with no PSU sense input configured no request drives
\* an output line, whether a magic packet or /power, /forcepower or /reset.
C10_UnknownPsuNoActuation ==
    ~PSU_SENSE_ENABLED =>
        /\ \A t \in Threads : ~InPulse(t)
        /\ \A b \in Buttons : ~line[b]

\* a well-formed magic packet frame: at least 102 bytes, the first six 0xFF;
\* for every datagram of the model, computed once
Framed ==
    [data \in Payloads \cup JetsonPayloads |->
        Len(data) >= MinPacketLen /\ Slice(data, 0, HeaderLen) = wol_header]

\* C11 (as claimed): a datagram is accepted as a magic packet only if it is at
\* least 102 bytes long and begins with six 0xFF bytes: whenever wol_listener
\* is waiting for a datagram, every datagram it would match is such a frame,
\* and every datagram handle_magic_packet maps to a Jetson is such a frame.
C11_OnlyFramedAccepted ==
    /\ th["wol"].pc = "loop" =>
          \A inc \in Payloads : MatchedKey(inc) # "none" => Framed[inc]
    /\ \A data \in JetsonPayloads :
          PacketTarget[jconfig][data] # 0 => Framed[data]

\* the first action, in the order wake, shutdown, reset, forceoff, whose
\* configured magic packet the datagram carries; "none" when there is none
FirstMatch(inc) ==
    LET hits == { i \in 1..Len(PacketKeys) :
                    /\ magic_packets[PacketKeys[i]] \notin {NoPacket, PacketError}
                    /\ PacketIn[magic_packets[PacketKeys[i]]][inc] }
    IN  IF hits = {} THEN "none"
        ELSE PacketKeys[CHOOSE i \in hits : \A j \in hits : i <= j]

\* C12 (as claimed): wol_listener maps a datagram to the first action whose
\* configured magic packet matches it, so a datagram carrying the shutdown,
\* reset or forceoff packet is recognised as that action also when no wake MAC
\* is configured or the wake packet does not match.
C12_FirstMatchingAction ==
    th["wol"].pc = "loop" =>
        \A inc \in Payloads : MatchedKey(inc) = FirstMatch(inc)

\* C19 (as claimed): a request line that starts with GET and does not have
\* exactly three space-separated fields never ends the web server thread.
C19_MalformedGetSurvives ==
    [][ (/\ th["web"].pc = "lines" /\ request # <<>>
         /\ Head(request)[1] = Tok("GET") /\ Len(Head(request)) # 3)
           => th'["web"].pc # "dead" ]_vars

\* C20 (as claimed): a request line whose method token is not GET, whatever
\* the token, is answered with the 405 response and starts no press.
C20_NonGetGets405 ==
    [][ (/\ th["web"].pc = "lines" /\ request # <<>>
         /\ Len(Head(request)) = 3 /\ Head(request)[1] # Tok("GET"))
           => ("405" \in replies' /\ th'["web"].pc \notin PressStates) ]_vars

\* the main thread finds thread n dead in this step: its variable holds a
\* Thread object that is not alive, and the check at position pc is made
FoundDead(n, pc) ==
    /\ main.pc = pc /\ main'.pc # pc /\ ~main'.signal
    /\ Truthy(task[n]) /\ ~is_alive(task[n])

\* C13 (as claimed): when the main loop finds the web server thread dead and
\* thread restart is disabled, it leaves the loop for the cleanup code (which
\* sets stop_threads and frees the GPIO) in that very cycle.
C13_DeadWebServerIsFatal ==
    [][ (FoundDead("web", "chk_web") /\ ~RESTART_THREADS)
           => main'.pc = "cleanup" ]_vars

\* C14: with thread restart enabled, the cycle that finds the pinger thread or
\* the web server thread dead assigns a newly constructed, started thread to
\* its variable; and no step ever makes a thread object that is not alive
\* alive again.
C14_RestartIsFresh ==
    [][ /\ \A n \in {"ping", "web"} :
              (FoundDead(n, "chk_" \o n) /\ RESTART_THREADS)
                 => (task'[n].obj > task[n].obj /\ is_alive(task'[n]))
        /\ \A n \in Tasks :
              (Truthy(task[n]) /\ ~is_alive(task[n]) /\ is_alive(task'[n]))
                 => task'[n].obj > task[n].obj ]_vars

\* C14 witness: both the pinger and the web server have been replaced and
\* their replacements run.
C14_Witness ==
    /\ RESTART_THREADS
    /\ task["ping"].obj >= 2 /\ is_alive(task["ping"])
    /\ task["web"].obj >= 2 /\ is_alive(task["web"])

\* C15 (as claimed): with thread restart enabled (and WOL still enabled), the
\* cycle that finds the WOL listener thread dead puts a new, started WOL
\* listener thread in its place.
C15_WolListenerRestarted ==
    [][ (FoundDead("wol", "chk_wol") /\ RESTART_THREADS /\ WOL_ENABLED)
           => (is_alive(task'["wol"]) /\ task'["wol"].obj > task["wol"].obj) ]_vars

\* C16: neither the death of the pinger or WOL listener thread nor the main
\* loop's finding it dead, with or without restart, makes the main loop exit,
\* sets stop_threads or touches the web server thread.
C16_DeathNotFatal ==
    [][ \A n \in {"ping", "wol"} :
          /\ (is_alive(task[n]) /\ ~is_alive(task'[n]))
                => (main' = main /\ stop_threads' = stop_threads
                      /\ task'["web"] = task["web"])
          /\ FoundDead(n, "chk_" \o n)
                => (main'.pc \in {"chk_web", "sleep"}
                      /\ stop_threads' = stop_threads /\ ~main'.freed
                      /\ task'["web"] = task["web"]) ]_vars

\* C16 witness: the pinger has died and was not restarted, the WOL listener
\* was found dead and dropped, and the main loop and the web server go on.
C16_Witness ==
    /\ ~RESTART_THREADS
    /\ task["ping"].st = "dead"
    /\ sconfig.psu /\ WOL_ENABLED /\ task["wol"] = NoThread
    /\ main.pc = "chk_ping" /\ ~stop_threads
    /\ task["web"].st = "run"

\* C17 (as claimed): once stop_threads is set every thread still running
\* eventually leaves its loop and ends, whatever the peers do.
C17_StopEndsEveryThread ==
    stop_threads ~> (\A n \in Tasks : ~is_alive(task[n]))

\* C18 (as claimed): a client that has connected and sends nothing does not
\* hold the web server for ever: the read is bounded, the web server thread
\* gets out of recv.
C18_SilentClientDropped ==
    (task["web"].st = "recv") ~> (task["web"].st # "recv")

\* C21 (as claimed): a hardware fault while a line is driven on or off is
\* contained: no listener thread is ended by an exception raised inside
\* press_button (a thread that is dead did not die holding a button).
C21_FaultContained ==
    \A t \in Threads : th[t].pc = "dead" => th[t].button = None

\* C22 (as claimed): when a reset_jetson call that has driven its line active
\* ends, with True or with False, the line has been driven inactive.
C22_LineInactiveAfterFailure ==
    [][ \A t \in JThreads :
          (jt[t].pc = "sleep" /\ jt'[t].pc # "sleep")
              => ~jline'[Head(jt[t].todo)] ]_vars

\* C23 (as claimed): a pulse on one Jetson never blocks another Jetson: no
\* reset request for a different Jetson that arrived at a listener while its
\* pulse is in progress is kept waiting for that pulse to end.
C23_NoWaitBehindOtherJetson ==
    \A t \in JThreads :
        jt[t].pc = "sleep"
            => \A i \in 1..Len(jt[t].queued) :
                  jt[t].queued[i] = Head(jt[t].todo)

\* C24: press_button calls made one after another: the clock readings of two
\* granted calls differ by strictly more than MIN_INTERVAL.  last_action_time
\* is the greatest granted reading whenever no call is between its test and
\* its assignment, and a call is granted only on a reading more than
\* MIN_INTERVAL past it; so of two requests less than MIN_INTERVAL apart only
\* one is granted.
C24_SequentialGrantsApart ==
    /\ \A g1, g2 \in grants :
          g1 # g2 => Abs(g1[2] - g2[2]) > MIN_INTERVAL
    /\ \A t \in Threads :
          th[t].pc = "pb_set"
              => th[t].current_time > last_action_time + MIN_INTERVAL
    /\ (\A t \in Threads : th[t].pc # "pb_set")
          => \A g \in grants : g[2] <= last_action_time

\* C24 witness: a second call is granted: an earlier granted call has set
\* last_action_time, and the call in hand has passed the test.
C24_Witness ==
    /\ th["wol"].pc = "pb_set" /\ th["wol"].granted
    /\ last_action_time >= 0
    /\ th["wol"].current_time > last_action_time + MIN_INTERVAL

\* C25 (as claimed): while a line is active because of a granted press,
\* last_action_time is at least that press's clock reading.
C25_StampedBeforeDrive ==
    \A t \in Threads :
        InPulse(t) => last_action_time >= th[t].current_time

\* C26 (as claimed): a press_button call that makes its test while
\* last_action_time still holds its initial value (startup time minus
\* MIN_INTERVAL; no call has been granted yet) is granted, whatever its
\* clock reading at or after startup.
C26_FirstPressGranted ==
    [][ \A t \in Threads :
          (th[t].pc = "pb_check" /\ th'[t].pc # "pb_check"
             /\ last_action_time = 0 - MIN_INTERVAL
             /\ th[t].current_time >= 0)
              => th'[t].pc = "pb_set" ]_vars

\* the datagram keys and urls whose guard reads PSU_SENSE.is_active
PsuGated == {"wake", "shutdown", "forceoff", "reset", "/forcepower", "/reset"}

\* C27: within a PSU-gated request the order is: PSU_SENSE.is_active is read
\* (the level the pin has at that moment, not a stored one), the gate decides
\* on that reading, press_button makes the rate-limit test, and only then is
\* the line driven; once press_button is entered the reading and the
\* decision are not made again.
C27_ReadGateLimitDrive ==
    [][ \A t \in Threads :
          /\ (th[t].pc \in {"loop", "lines"} /\ th'[t].sense # "none")
                => th'[t].sense = SenseOf(psu)
          /\ (th'[t].pc \in PressStates /\ th'[t].key \in PsuGated)
                => /\ th'[t].sense # "none"
                   /\ th'[t].key = "wake" <=> th'[t].sense = "off"
          /\ (th[t].pc \in PressStates /\ th'[t].pc # "dead")
                => (th'[t].sense = th[t].sense /\ th'[t].key = th[t].key)
          /\ th'[t].pulses > 0 => th'[t].granted
          /\ (th'[t].pc = "pb_sleep" /\ th[t].pc # "pb_sleep")
                => th[t].pc = "pb_on" ]_vars

\* C27 witness: a /reset pulse is in progress on a reading taken before it
\* began; the supply has gone off since and the reading was not taken again.
C27_Witness ==
    /\ th["web"].pc = "pb_sleep" /\ th["web"].key = "/reset"
    /\ th["web"].sense = "on" /\ ~psu

\* the pin of the action behind a datagram key or url is not configured
Unconfigured(k) ==
    \/ k \in {"wake", "shutdown", "forceoff", "/power", "/forcepower"}
         /\ ~POWER_ENABLED
    \/ k \in {"reset", "/reset"} /\ ~RESET_ENABLED

\* C28: a request for an action whose output pin is not configured is a
\* no-op: press_button is not entered, nothing is driven, the thread is not
\* ended and goes on with its loop; and a line whose pin is not configured
\* is never driven.  The auxiliary actions are never configured: no packet is
\* made for them, their button is None, and GET /aux1 or /aux2 in any state
\* of the web server presses nothing and leaves the thread in its loop.
C28_UnconfiguredIsNoOp ==
    /\ \A k \in {"aux1", "aux2"} :
          k \notin DOMAIN magic_packets /\ TargetButton(k) = None
    /\ \A u \in {"/aux1", "/aux2"} :
          LET step == WebLineStep(GetLine(Tok(u)), <<>>)
          IN  /\ step.to.pc = "done" /\ step.to.button = None
              /\ step.to.pulses = 0
    /\ \A t \in Threads :
          Unconfigured(th[t].key)
              => /\ th[t].pc \in {"done", "lines"}
                 /\ th[t].button = None
                 /\ th[t].pulses = 0
    /\ ~POWER_ENABLED => ~line["POWER_SWITCH"]
    /\ ~RESET_ENABLED => ~line["RESET_SWITCH"]

\* C28 witness: no power pin; a wake packet passed the PSU gate and the
\* press_button call returned at once.
C28_Witness ==
    /\ ~POWER_ENABLED
    /\ th["wol"].pc = "done" /\ th["wol"].key = "wake"
    /\ th["wol"].sense = "off" /\ th["wol"].pulses = 0

\* C29: a press for ForceOff (key forceoff, url /forcepower) lasts LONG_PRESS
\* and a press for any other action SHORT_PRESS, in the WOL listener and in
\* the web server alike.
C29_DurationByAction ==
    /\ \A k \in {"wake", "shutdown", "reset", "aux1", "aux2"} :
          TargetDuration(k) = SHORT_PRESS
    /\ TargetDuration("forceoff") = LONG_PRESS
    /\ \A u \in {"/power", "/reset"} : RouteDuration(u) = SHORT_PRESS
    /\ RouteDuration("/forcepower") = LONG_PRESS
    /\ \A t \in Threads :
          th[t].pc \in PressStates
              => /\ th[t].duration =
                      IF th[t].key \in {"forceoff", "/forcepower"}
                      THEN LONG_PRESS ELSE SHORT_PRESS
                 /\ th[t].pc = "pb_sleep"
                      => th[t].wake_at <= now + th[t].duration

\* C29 witness: a /forcepower pulse of LONG_PRESS, longer than SHORT_PRESS.
C29_Witness ==
    /\ th["web"].pc = "pb_sleep" /\ th["web"].key = "/forcepower"
    /\ th["web"].duration = LONG_PRESS /\ LONG_PRESS > SHORT_PRESS

\* C30 (as claimed): the packet matched for the reset action is the one made
\* of the configured reset_mac, and the packet matched for the forceoff
\* action the one made of the configured forceoff_mac.
C30_MacBoundToAction ==
    /\ magic_packets["reset"] = PacketTable[config.reset_mac]
    /\ magic_packets["forceoff"] = PacketTable[config.forceoff_mac]

\* the first 12 bytes of every datagram, computed once
First12 == [data \in JetsonPayloads |-> Slice(data, 0, HeaderLen + MacLen)]

\* the lowest-numbered jetson section whose magic_packet_mac, compared
\* without regard to case, is the text of bytes 6 to 11; 0 if there is none
SectionOf(cfg, head) ==
    LET text == Lower(MacText(Slice(head, HeaderLen, HeaderLen + MacLen)))
        hits == { i \in JetsonIds : Lower(cfg.mac[i]) = text }
    IN  IF hits = {} THEN 0 ELSE CHOOSE i \in hits : \A j \in hits : i <= j

SectionTable ==
    [cfg \in JetsonConfigs |->
        [data \in JetsonPayloads |-> SectionOf(cfg, First12[data])]]

\* the outcome of handle_magic_packet against the first 12 bytes, for every
\* configuration and datagram considered
FirstTwelveDecide ==
    [cfg \in JetsonConfigs |->
        /\ \A data \in JetsonPayloads :
              PacketTarget[cfg][data] =
                  IF Len(data) < MinPacketLen
                       \/ Slice(First12[data], 0, HeaderLen) # wol_header
                  THEN 0
                  ELSE SectionTable[cfg][data]
        /\ \A d1, d2 \in JetsonPayloads :
              (Len(d1) >= MinPacketLen /\ Len(d2) >= MinPacketLen
                 /\ First12[d1] = First12[d2])
                  => PacketTarget[cfg][d1] = PacketTarget[cfg][d2]]

\* C31: handle_magic_packet looks at the length and at the first 12 bytes
\* only: a datagram shorter than 102 bytes or without the 0xFF header calls
\* nothing; any other calls reset_jetson for the first section 1..5 whose MAC
\* matches bytes 6 to 11 case-insensitively (none: nothing), whatever bytes
\* 12 onward hold; two datagrams of 102 bytes or more with the same first 12
\* bytes have the same outcome.
C31_FirstTwelveBytesDecide ==
    FirstTwelveDecide[jconfig]

\* C31 witness: jetson1 and jetson3 hold the same MAC; the UDP listener is
\* pulsing jetson1 for a datagram, and the datagram with 90 arbitrary bytes
\* after the first 12 and the one with trailing bytes select jetson1 too.
C31_Witness ==
    /\ jconfig.mac[3] = jconfig.mac[1]
    /\ jt["udp"].pc = "sleep" /\ jt["udp"].todo = <<1>>
    /\ PacketTarget[jconfig][JunkTailPayload] = 1
    /\ PacketTarget[jconfig][LongPayload] = 1

\* C32: a WOL port whose bind fails is left out and the listener serves the
\* ports that did bind; when no port binds the listener clears WOL_ENABLED
\* and returns, the main loop's next check drops the thread variable and goes
\* on to its sleep without stopping anything, and the listener is not
\* started again
C32_BindFailuresTolerated ==
    [][ /\ (WolBind =>
              \E bound \in SUBSET WolPorts :
                 /\ task'["wol"].listeners = bound
                 /\ IF bound = {}
                    THEN ~WOL_ENABLED' /\ task'["wol"].st = "exited"
                    ELSE task'["wol"].st = "run" /\ WOL_ENABLED' = WOL_ENABLED)
        /\ (ChkWol /\ task["wol"].st = "exited" /\ ~WOL_ENABLED
              => /\ task'["wol"] = NoThread
                 /\ main'.pc = "sleep"
                 /\ stop_threads' = stop_threads)
        /\ (task["wol"].st = "exited" /\ ~WOL_ENABLED
              => ~is_alive(task'["wol"]))
        /\ (task["wol"] = NoThread => task'["wol"] = NoThread) ]_vars

C32_Witness ==
    /\ task["wol"].st = "run"
    /\ task["wol"].listeners = {9}
    /\ WOL_ENABLED
    /\ main.pc = "sleep"


\* C35 (as claimed): at every moment at most one web server thread is alive;
\* startup and the main loop never leave two of them running or competing
\* for the listening address.
C35_OneWebServer ==
    Cardinality({ n \in WebTasks : is_alive(task[n]) }) <= 1

\* C36 (as claimed): no listener thread runs before __main__ has bound the
\* names the threads share (TARGET_IDS, the access lists, the GPIO objects,
\* last_action_time, stop_threads).
C36_InitialisedBeforeListeners ==
    \A n \in DOMAIN task : is_alive(task[n]) => StopThreadsBound

\* C37 (as claimed): the GPIO devices are released only after every thread
\* that can call press_button has stopped.
C37_ReleasedAfterThreadsStop ==
    main.freed => \A n \in DOMAIN task \cap {"web", "early", "wol"} : ~is_alive(task[n])


\* C38: a refused request changes neither last_action_time nor any output
\* line: a step that leaves a thread outside a granted press (refused by
\* valid_host, by the PSU gate, for a missing pin, or by the rate limit)
\* leaves both as they were, and a rate-limited attempt does not move
\* last_action_time, so it does not extend the lock-out
C38_RefusalChangesNothing ==
    [][ /\ \A t \in Threads :
              (th'[t] # th[t] /\ ~th'[t].granted)
                 => (last_action_time' = last_action_time /\ line' = line)
        /\ \A t \in Threads :
              (th[t].pc = "pb_check" /\ th'[t].pc # "pb_check" /\ ~th'[t].granted)
                 => last_action_time' = last_action_time ]_vars

C38_Witness ==
    /\ th["wol"].pc = "done"
    /\ th["wol"].key = "wake"
    /\ ~th["wol"].granted
    /\ th["wol"].current_time >= 1
    /\ last_action_time < th["wol"].current_time
    /\ \A b \in Buttons : ~line[b]


\* C39 (as claimed): no well-formed GET for a recognised route ends the web
\* server thread, in any configuration.
C39_RecognisedRouteKeepsListener ==
    [][ ( /\ th["web"].pc = "lines"
          /\ request # <<>>
          /\ Len(Head(request)) = 3
          /\ Head(request)[1] = Tok("GET")
          /\ Head(request)[2][1] \in KnownUrls
          /\ th'["web"] # th["web"] )
        => th'["web"].pc # "dead" ]_vars


\* C40: reset_jetson called with an id that is not an enabled, initialised
\* Jetson returns without driving any line, and a call for an enabled Jetson
\* drives that Jetson's line only: a line changes only in a step of a call
\* whose id is that line's, and that id is in reset_devices
C40_OnlyTheNamedLine ==
    [][ /\ \A t \in JThreads :
              ( /\ jt[t].pc = "call"
                /\ jt'[t] # jt[t]
                /\ Head(jt[t].todo) \notin reset_devices(jconfig) )
              => (jline' = jline /\ jt'[t].pc # "sleep")
        /\ \A i \in JetsonIds :
              jline'[i] # jline[i]
              => \E t \in JThreads :
                    /\ jt'[t] # jt[t]
                    /\ jt[t].todo # <<>>
                    /\ Head(jt[t].todo) = i
                    /\ i \in reset_devices(jconfig) ]_vars

C40_Witness ==
    /\ jt["udp"].pc = "call"
    /\ Head(jt["udp"].todo) \notin reset_devices(jconfig)
    /\ jt["http"].pc = "sleep"
    /\ \A i \in JetsonIds : jline[i] <=> (i = Head(jt["http"].todo))


\* C33: every granted pulse ends.  Every line starts inactive and is active
\* only while a call that was granted is between its on() and its off() (or
\* after a device fault: the thread that died in button.off(), a device of
\* gpio_faulty); a call that has driven a line active and leaves its sleep
\* drives that line inactive, unless the device fails; and every call in its
\* sleep does leave it.  The clock of the model stops at MaxTime, so the
\* pulses that matter are those due by then
C33_EveryPulseEnds ==
    /\ [](\A b \in Buttons :
            line[b] => \E t \in Threads :
                          /\ th[t].button = b
                          /\ th[t].granted
                          /\ th[t].pc \in {"pb_sleep", "dead"})
    /\ [](\A i \in JetsonIds :
            jline[i] => \/ i \in jconfig.gpio_faulty
                        \/ \E t \in JThreads :
                              jt[t].pc = "sleep" /\ Head(jt[t].todo) = i)
    /\ [][ /\ (th["wol"].pc = "pb_sleep" /\ th'["wol"].pc \notin {"pb_sleep", "dead"})
                => ~line'[th["wol"].button]
           /\ \A t \in JThreads :
                ( /\ jt[t].pc = "sleep"
                  /\ jt'[t].pc # "sleep" \/ jt'[t].todo # jt[t].todo
                  /\ Head(jt[t].todo) \notin jconfig.gpio_faulty )
                => ~jline'[Head(jt[t].todo)] ]_vars
    /\ (th["wol"].pc = "pb_sleep" /\ th["wol"].wake_at <= MaxTime)
          ~> (th["wol"].pc # "pb_sleep")
    /\ \A t \in JThreads :
          (jt[t].pc = "sleep" /\ jt[t].wake_at <= MaxTime) ~> (jt[t].pc # "sleep")

C33_Witness ==
    /\ jt["udp"].pc = "idle"
    /\ <<"udp", 2>> \in jrecent
    /\ jt["http"].pc = "sleep"
    /\ Head(jt["http"].todo) = 1
    /\ jline[1] /\ ~jline[2]

\* C34 (as claimed): when the UDP listener thread of the Jetson controller
\* has died of a fault, that is found out and acted on: the listener is
\* started again (the model has no other step that acts on the death).
C34_DeadUdpListenerNoticed ==
    (jt["udp"].pc = "exited") ~> (jt["udp"].pc # "exited")

====
